---- MODULE Spec2Model ----
(***************************************************************************)
(* Model of ouroboros/llm.py: the provider router (_detect_provider), the  *)
(* per-endpoint client cache (LLMClient._get_client), the chat call        *)
(* (LLMClient.chat) with its request payload and usage normalization, the  *)
(* cost lookup (LLMClient._fetch_generation_cost), the effort levels       *)
(* (normalize_reasoning_effort, reasoning_rank) and the running usage      *)
(* total (add_usage).                                                      *)
(*                                                                         *)
(* Python strings that the code inspects character by character (model     *)
(* identifiers, base URLs) are sequences of one-character strings; opaque  *)
(* strings (credentials, generation ids) are TLA+ strings.  Python values  *)
(* whose type the code tests are tagged records (PyNone, PyInt, PyStr,     *)
(* PyDict); a dict is a function whose DOMAIN is its set of keys.          *)
(***************************************************************************)
EXTENDS Integers, Sequences, FiniteSets, TLC

VARIABLES
    clients,      \* self._clients: base_url -> handle
    constructed,  \* every handle OpenAI(...) has built so far
    history,      \* completed _get_client calls, in order of return
    ncalls,       \* top-level calls started so far
    pc,           \* pc[t]: where thread t stands
    op,           \* op[t]: the top-level operation thread t runs
    base_url,     \* base_url[t]: local of _get_client / chat
    api_key,      \* api_key[t]
    before,       \* before[t]: self._clients as thread t's _get_client call found it
    new_client,   \* new_client[t]: the handle built at line 181, not yet stored
    client,       \* client[t]: what _get_client returned to thread t
    env,          \* os.environ: the credential variables that are set
    model,        \* model[t]: the model identifier the caller passed
    clean_model,  \* clean_model[t]: third component of _detect_provider's result
    raw_usage,    \* raw_usage[t]: the usage dict as the provider's response held it
    usage,        \* usage[t]: chat's local usage dict
    msg,          \* msg[t]: chat's local msg
    gen_id,       \* gen_id[t]: generation_id handed to _fetch_generation_cost
    cost,         \* cost[t]: what _fetch_generation_cost returns
    trace,        \* trace[t]: network requests, sleeps and the end of t's current call
    result,       \* result[t]: how t's last call ended, and with what
    total,        \* the caller's running usage total, the dict add_usage updates
    records,      \* the usage records add_usage has been given, in call order
    totals,       \* totals[i + 1]: the running total after i add_usage calls
    heap,         \* the list and dict objects alive during a chat call, by address
    heap0,        \* the heap as the caller handed its tools to chat
    tools,        \* tools[t]: chat's tools argument, None or a reference
    tool_choice,  \* tool_choice[t]: chat's tool_choice argument
    reasoning_effort, \* reasoning_effort[t]: the effort argument
    effort,       \* effort[t]: what normalize_reasoning_effort returned
    rank,         \* rank[t]: what reasoning_rank returned
    kwargs        \* kwargs[t]: the request payload built by chat

poolVars == <<clients, constructed, history, ncalls>>
threadVars == <<pc, op, base_url, api_key, before, new_client, client>>
routeVars == <<env, model, clean_model>>
chatVars == <<raw_usage, usage, msg, gen_id, cost, trace, result>>
accVars == <<total, records, totals>>
buildVars == <<heap, heap0, tools, tool_choice, reasoning_effort, effort, rank, kwargs>>
vars == <<poolVars, threadVars, routeVars, chatVars, accVars, buildVars>>

(***************************************************************************)
(* Bounds.                                                                 *)
(***************************************************************************)
NThreads == 2
MaxCalls == 3
MaxPieces == 2
MaxCount == 2

Threads == 1..NThreads

(***************************************************************************)
(* Python values.                                                          *)
(***************************************************************************)
PyNone == [ty |-> "None"]
PyInt(n) == [ty |-> "int", n |-> n]
PyStr(s) == [ty |-> "str", s |-> s]
PyDict(d) == [ty |-> "dict", d |-> d]
PyList(l) == [ty |-> "list", l |-> l]
\* a str whose characters the code looks at, as its sequence of characters
PyText(cs) == [ty |-> "text", cs |-> cs]
PyBool(b) == [ty |-> "bool", b |-> b]

EmptyDict == [k \in {} |-> PyNone]

\* d.get(k): the value under k, None when the key is missing
Get(d, k) == IF k \in DOMAIN d THEN d[k] ELSE PyNone

\* d[k] = v on a dict
Put(d, k, v) == [x \in DOMAIN d \cup {k} |-> IF x = k THEN v ELSE d[x]]

\* Python truthiness of the values the code tests with "not", "or", "if"
Truthy(v) ==
    CASE v.ty = "None" -> FALSE
      [] v.ty = "int" -> v.n # 0
      [] v.ty = "str" -> v.s # ""
      [] v.ty = "dict" -> DOMAIN v.d # {}
      [] v.ty = "list" -> v.l # << >>
      [] v.ty = "text" -> v.cs # << >>
      [] v.ty = "bool" -> v.b

\* a or b
Or(a, b) == IF Truthy(a) THEN a ELSE b

(***************************************************************************)
(* Strings as character sequences.                                         *)
(***************************************************************************)
\* s.startswith(p)
StartsWith(s, p) == Len(s) >= Len(p) /\ SubSeq(s, 1, Len(p)) = p

\* sub in s
Contains(s, sub) ==
    \E i \in 1..(Len(s) - Len(sub) + 1) : SubSeq(s, i, i + Len(sub) - 1) = sub

OPENAI_URL == <<"h","t","t","p","s",":","/","/","a","p","i",".","o","p","e","n","a","i",".","c","o","m","/","v","1">>
GOOGLE_URL == <<"h","t","t","p","s",":","/","/","g","e","n","e","r","a","t","i","v","e","l","a","n","g","u","a","g","e",".","g","o","o","g","l","e","a","p","i","s",".","c","o","m","/","v","1","b","e","t","a","/","o","p","e","n","a","i","/">>
OPENROUTER_URL == <<"h","t","t","p","s",":","/","/","o","p","e","n","r","o","u","t","e","r",".","a","i","/","a","p","i","/","v","1">>

OPENROUTER_HOST == <<"o","p","e","n","r","o","u","t","e","r",".","a","i">>

_is_openrouter(url) == Contains(url, OPENROUTER_HOST)

(***************************************************************************)
(* _detect_provider: model identifier -> (base_url, api_key, clean name).   *)
(***************************************************************************)
P_openai == <<"o","p","e","n","a","i","/">>
P_google == <<"g","o","o","g","l","e","/">>
P_gemini == <<"g","e","m","i","n","i">>
P_anthropic == <<"a","n","t","h","r","o","p","i","c","/">>
P_xai == <<"x","-","a","i","/">>
P_meta_llama == <<"m","e","t","a","-","l","l","a","m","a","/">>
P_qwen == <<"q","w","e","n","/">>

\* os.environ.get(name, "")
EnvGet(e, name) == IF name \in DOMAIN e THEN e[name] ELSE ""

\* s.replace(old, new): every non-overlapping occurrence, left to right
RECURSIVE Replace(_, _, _)
Replace(s, old, new) ==
    IF Len(s) < Len(old) THEN s
    ELSE IF StartsWith(s, old)
         THEN new \o Replace(SubSeq(s, Len(old) + 1, Len(s)), old, new)
         ELSE <<Head(s)>> \o Replace(Tail(s), old, new)

\* a plausible slip: "qwen/" left out of the tuple of line 50
OtherVendor_WithoutQwen(m) == StartsWith(m, P_xai) \/ StartsWith(m, P_meta_llama)

\* line 50: model.startswith(("x-ai/", "meta-llama/", "qwen/"))
OtherVendor(m) ==
    StartsWith(m, P_xai) \/ StartsWith(m, P_meta_llama) \/ StartsWith(m, P_qwen)

_detect_provider(m, e) ==
    IF StartsWith(m, P_openai)
    THEN <<OPENAI_URL, EnvGet(e, "OPENAI_API_KEY"), SubSeq(m, 8, Len(m))>>
    ELSE IF StartsWith(m, P_google) \/ StartsWith(m, P_gemini)
    THEN <<GOOGLE_URL, EnvGet(e, "GOOGLE_API_KEY"), Replace(m, P_google, << >>)>>
    ELSE IF StartsWith(m, P_anthropic)
    THEN <<OPENROUTER_URL, EnvGet(e, "OPENROUTER_API_KEY"), m>>
    ELSE IF OtherVendor(m)
    THEN <<OPENROUTER_URL, EnvGet(e, "OPENROUTER_API_KEY"), m>>
    ELSE <<OPENAI_URL, EnvGet(e, "OPENAI_API_KEY"), m>>

\* _is_anthropic_model
_is_anthropic_model(m) == StartsWith(m, P_anthropic)

\* The identifiers the router is tried on: up to MaxPieces pieces, each a
\* routing prefix, a near miss of one, or a bare name.
Pieces ==
    {P_openai, P_google, P_gemini, P_anthropic, P_xai, P_meta_llama, P_qwen,
     <<"g","p","t">>, <<"o","p","e","n","a","i">>, <<"O","p","e","n","a","i","/">>,
     <<"/">>}

RECURSIVE Concat(_)
Concat(ps) == IF ps = << >> THEN << >> ELSE Head(ps) \o Concat(Tail(ps))

Identifiers ==
    {Concat(ps) : ps \in UNION {[1..n -> Pieces] : n \in 0..MaxPieces}}

EnvNames == {"OPENAI_API_KEY", "GOOGLE_API_KEY", "OPENROUTER_API_KEY"}

\* every credential variable set, each to its own value
FullEnv ==
    [n \in EnvNames |->
        CASE n = "OPENAI_API_KEY" -> "sk-openai"
          [] n = "GOOGLE_API_KEY" -> "sk-google"
          [] n = "OPENROUTER_API_KEY" -> "sk-or"]

\* any subset of the credential variables set
Envs == {[n \in S |-> FullEnv[n]] : S \in SUBSET EnvNames}

\* base_url, api_key, clean_model = _detect_provider(model), on the identifier
\* thread t holds
DetectProviderCall(t) ==
    /\ pc[t] = "idle"
    /\ op[t] = "none"
    /\ op' = [op EXCEPT ![t] = "detect_provider"]
    /\ base_url' = [base_url EXCEPT ![t] = _detect_provider(model[t], env)[1]]
    /\ api_key' = [api_key EXCEPT ![t] = _detect_provider(model[t], env)[2]]
    /\ clean_model' = [clean_model EXCEPT ![t] = _detect_provider(model[t], env)[3]]
    /\ UNCHANGED <<accVars, buildVars, poolVars, pc, before, new_client, client, env, model, chatVars>>

(***************************************************************************)
(* LLMClient._get_client, step by step.  Nothing in the method takes a     *)
(* lock, so another thread may run between any two of its steps: the       *)
(* membership test (line 176), the construction of the handle (the right   *)
(* hand side of line 181), the store into the dict (line 181) and the      *)
(* final read (line 186).                                                  *)
(***************************************************************************)
Endpoints == {OPENAI_URL, GOOGLE_URL, OPENROUTER_URL}
ApiKeys == {"sk-A", "sk-B"}

NoHandle == [id |-> 0]

\* the default_headers built at lines 178-180
Headers(url) ==
    IF _is_openrouter(url) THEN {"X-Title", "HTTP-Referer"} ELSE {"X-Title"}

\* OpenAI(base_url=..., api_key=..., default_headers=...): a fresh object
NewHandle(url, key) ==
    [id |-> Cardinality(constructed) + 1, base_url |-> url, api_key |-> key,
     headers |-> Headers(url)]

\* "cache_key not in self._clients" is false: the cache key is the base_url alone
CacheHit_KeyedByCredential(cl, url, key) ==
    url \in DOMAIN cl /\ cl[url].api_key = key

CacheHit(cl, url, key) == url \in DOMAIN cl

AllIdle == \A t \in Threads : pc[t] = "idle"

\* a caller invokes _get_client(url, key) directly
GetClientCall(t, url, key) ==
    /\ pc[t] = "idle"
    /\ ncalls < MaxCalls
    /\ ncalls' = ncalls + 1
    /\ op' = [op EXCEPT ![t] = "get_client"]
    /\ base_url' = [base_url EXCEPT ![t] = url]
    /\ api_key' = [api_key EXCEPT ![t] = key]
    /\ before' = [before EXCEPT ![t] = clients]
    /\ new_client' = [new_client EXCEPT ![t] = NoHandle]
    /\ client' = [client EXCEPT ![t] = NoHandle]
    /\ pc' = [pc EXCEPT ![t] = "gc_check"]
    /\ UNCHANGED <<accVars, buildVars, clients, constructed, history, routeVars, chatVars>>

\* line 176: if cache_key not in self._clients
GcCheck(t) ==
    /\ pc[t] = "gc_check"
    /\ pc' = [pc EXCEPT ![t] =
                IF CacheHit(clients, base_url[t], api_key[t])
                THEN "gc_return" ELSE "gc_construct"]
    /\ UNCHANGED <<accVars, buildVars, poolVars, op, base_url, api_key, before, new_client, client, routeVars, chatVars>>

\* lines 177-185: build the handle
GcConstruct(t) ==
    /\ pc[t] = "gc_construct"
    /\ new_client' = [new_client EXCEPT ![t] = NewHandle(base_url[t], api_key[t])]
    /\ constructed' = constructed \cup {NewHandle(base_url[t], api_key[t])}
    /\ pc' = [pc EXCEPT ![t] = "gc_insert"]
    /\ UNCHANGED <<accVars, buildVars, clients, history, ncalls, op, base_url, api_key, before, client, routeVars, chatVars>>

\* line 181: self._clients[cache_key] = <the handle>
GcInsert(t) ==
    /\ pc[t] = "gc_insert"
    /\ clients' = Put(clients, base_url[t], new_client[t])
    /\ pc' = [pc EXCEPT ![t] = "gc_return"]
    /\ UNCHANGED <<accVars, buildVars, constructed, history, ncalls, op, base_url, api_key, before,
                   new_client, client, routeVars, chatVars>>

\* line 186: return self._clients[cache_key]
GcReturn(t) ==
    /\ pc[t] = "gc_return"
    /\ client' = [client EXCEPT ![t] = clients[base_url[t]]]
    /\ history' = Append(history,
                         [base_url |-> base_url[t], api_key |-> api_key[t],
                          handle |-> clients[base_url[t]],
                          before |-> before[t], after |-> clients])
    /\ pc' = [pc EXCEPT ![t] = IF op[t] = "chat" THEN "chat_request" ELSE "idle"]
    /\ UNCHANGED <<accVars, buildVars, clients, constructed, ncalls, op, base_url, api_key, before,
                   new_client, routeVars, chatVars>>

(***************************************************************************)
(* LLMClient._fetch_generation_cost.  One lookup is requests.get(...) and   *)
(* the reading of its answer (lines 195-200; lines 203-208 are the same).  *)
(* What the network can do: the request times out, or a response arrives   *)
(* with a status and a body; the body is not JSON, or it is a JSON object.  *)
(***************************************************************************)
NotJson == [ty |-> "not_json"]

Raised(exc) == [ty |-> "raised", exc |-> exc]

\* the "data" objects a generation lookup may carry
LookupData ==
    {tc @@ us :
        tc \in {EmptyDict, [total_cost |-> PyInt(0)], [total_cost |-> PyInt(5)],
                [total_cost |-> PyStr("n/a")]},
        us \in {EmptyDict, [usage |-> PyNone], [usage |-> PyDict(EmptyDict)],
                [usage |-> PyDict([cost |-> PyInt(0)])],
                [usage |-> PyDict([cost |-> PyInt(6)])]}}

LookupBodies ==
    {NotJson, PyDict(EmptyDict), PyDict([data |-> PyNone])}
        \cup {PyDict([data |-> PyDict(d)]) : d \in LookupData}

LookupOutcomes ==
    {[kind |-> "timeout"]}
        \cup {[kind |-> "response", status |-> 404, body |-> NotJson],
              [kind |-> "response", status |-> 500, body |-> PyDict(EmptyDict)]}
        \cup {[kind |-> "response", status |-> 200, body |-> b] : b \in LookupBodies}

\* float(cost) at lines 200 and 208
ToFloat(v) == IF v.ty = "int" THEN v ELSE Raised("ValueError")

\* data.get("total_cost") or data.get("usage", {}).get("cost"), lines 198 and 206;
\* the right operand is evaluated only when the left one is falsy
CostOf(data) ==
    IF Truthy(Get(data, "total_cost")) THEN Get(data, "total_cost")
    ELSE LET u == IF "usage" \in DOMAIN data THEN data["usage"] ELSE PyDict(EmptyDict)
         IN IF u.ty = "dict" THEN Get(u.d, "cost") ELSE Raised("AttributeError")

\* One lookup, lines 195-200: PyNone when it falls through to the next
\* statement, the float when it returns one, Raised(..) when it raises.
Attempt(o) ==
    IF o.kind = "timeout" THEN Raised("Timeout")
    ELSE IF o.status # 200 THEN PyNone
    ELSE IF o.body.ty # "dict" THEN Raised("JSONDecodeError")
    ELSE LET data == Or(Get(o.body.d, "data"), PyDict(EmptyDict))
         IN LET c == CostOf(data.d)
            IN IF c.ty = "raised" THEN c
               ELSE IF c # PyNone THEN ToFloat(c)
               ELSE PyNone

\* a plausible slip: only transport errors are caught
Caught_OnlyTransportErrors(exc) == exc \in {"Timeout"}

\* line 209: "except Exception" catches every exception a lookup can raise
Caught(exc) == exc \in {"Timeout", "JSONDecodeError", "AttributeError", "ValueError"}

\* a plausible slip: the retry is a loop that never gives up
AfterSecondAttempt_RetryAgain == "fc_sleep"

\* lines 203-211: after the second lookup yields nothing the function returns None
AfterSecondAttempt == "fc_return"

\* what an outcome is, told from the outcome alone
LookupClass(o) ==
    IF o.kind = "timeout" THEN "timeout"
    ELSE IF o.status # 200 THEN "status"
    ELSE IF o.body.ty # "dict" THEN "malformed"
    ELSE "answer"

LookupEvent(o) == [ev |-> "lookup", class |-> LookupClass(o), got |-> Attempt(o)]

\* a caller invokes _fetch_generation_cost(gid, url, key) directly
FetchCostCall(t, gid, url, key) ==
    /\ pc[t] = "idle"
    /\ AllIdle
    /\ ncalls < MaxCalls
    /\ ncalls' = ncalls + 1
    /\ op' = [op EXCEPT ![t] = "fetch_cost"]
    /\ base_url' = [base_url EXCEPT ![t] = url]
    /\ api_key' = [api_key EXCEPT ![t] = key]
    /\ gen_id' = [gen_id EXCEPT ![t] = gid]
    /\ model' = [model EXCEPT ![t] = << >>]
    /\ clean_model' = [clean_model EXCEPT ![t] = << >>]
    /\ raw_usage' = [raw_usage EXCEPT ![t] = EmptyDict]
    /\ usage' = [usage EXCEPT ![t] = EmptyDict]
    /\ msg' = [msg EXCEPT ![t] = PyNone]
    /\ cost' = [cost EXCEPT ![t] = PyNone]
    /\ trace' = [trace EXCEPT ![t] = << >>]
    /\ result' = [result EXCEPT ![t] = [kind |-> "none"]]
    /\ pc' = [pc EXCEPT ![t] = "fc_entry"]
    /\ UNCHANGED <<accVars, buildVars, clients, constructed, history, before, new_client, client, env>>

\* lines 190-191
FcEntry(t) ==
    /\ pc[t] = "fc_entry"
    /\ pc' = [pc EXCEPT ![t] =
                IF ~_is_openrouter(base_url[t]) THEN "fc_return" ELSE "fc_lookup1"]
    /\ UNCHANGED <<accVars, buildVars, poolVars, op, base_url, api_key, before, new_client, client,
                   routeVars, chatVars>>

\* One requests.get and the reading of its answer by thread t, the network
\* answering o: the float is returned, or an exception is caught at line 209
\* and None returned, or control falls through to the statement at pc value
\* next.  An exception the except clause did not catch leaves the method, and
\* chat with it.
Lookup(t, o, next) ==
    LET r == Attempt(o) IN
    IF r.ty = "raised" /\ ~Caught(r.exc)
    THEN /\ trace' = [trace EXCEPT ![t] =
                         Append(Append(@, LookupEvent(o)), [ev |-> "raise"])]
         /\ result' = [result EXCEPT ![t] = [kind |-> "raised", exc |-> r.exc]]
         /\ pc' = [pc EXCEPT ![t] = "idle"]
         /\ cost' = cost
    ELSE /\ trace' = [trace EXCEPT ![t] = Append(@, LookupEvent(o))]
         /\ result' = result
         /\ cost' = [cost EXCEPT ![t] = IF r.ty = "int" THEN r ELSE PyNone]
         /\ pc' = [pc EXCEPT ![t] =
                     IF r.ty = "raised" \/ r.ty = "int" THEN "fc_return" ELSE next]

\* lines 195-200
FcLookup1(t) ==
    /\ pc[t] = "fc_lookup1"
    /\ \E o \in LookupOutcomes : Lookup(t, o, "fc_sleep")
    /\ UNCHANGED <<accVars, buildVars, poolVars, op, base_url, api_key, before, new_client, client,
                   routeVars, raw_usage, usage, msg, gen_id>>

\* line 202: time.sleep(0.5), on the calling thread
FcSleep(t) ==
    /\ pc[t] = "fc_sleep"
    /\ trace' = [trace EXCEPT ![t] = Append(@, [ev |-> "sleep"])]
    /\ pc' = [pc EXCEPT ![t] = "fc_lookup2"]
    /\ UNCHANGED <<accVars, buildVars, poolVars, op, base_url, api_key, before, new_client, client,
                   routeVars, raw_usage, usage, msg, gen_id, cost, result>>

\* lines 203-208
FcLookup2(t) ==
    /\ pc[t] = "fc_lookup2"
    /\ \E o \in LookupOutcomes : Lookup(t, o, AfterSecondAttempt)
    /\ UNCHANGED <<accVars, buildVars, poolVars, op, base_url, api_key, before, new_client, client,
                   routeVars, raw_usage, usage, msg, gen_id>>

\* _fetch_generation_cost returns cost[t]: to its direct caller, or into chat
\* at line 286, which stores a cost that is not None (lines 287-288)
FcReturn(t) ==
    /\ pc[t] = "fc_return"
    /\ IF op[t] = "chat"
       THEN /\ usage' = [usage EXCEPT ![t] =
                           IF cost[t] # PyNone THEN Put(@, "cost", cost[t]) ELSE @]
            /\ pc' = [pc EXCEPT ![t] = "chat_return"]
            /\ UNCHANGED <<result, trace>>
       ELSE /\ result' = [result EXCEPT ![t] = [kind |-> "returned", value |-> cost[t]]]
            /\ trace' = [trace EXCEPT ![t] = Append(@, [ev |-> "return"])]
            /\ pc' = [pc EXCEPT ![t] = "idle"]
            /\ UNCHANGED usage
    /\ UNCHANGED <<accVars, buildVars, poolVars, op, base_url, api_key, before, new_client, client,
                   routeVars, raw_usage, msg, gen_id, cost>>

(***************************************************************************)
(* normalize_reasoning_effort and reasoning_rank.                          *)
(***************************************************************************)
MaxPad == 1

\* the characters str.strip() removes, as far as the inputs hold them
WHITESPACE == {" ", "\t", "\n"}

UPPERCASE == <<"A","B","C","D","E","F","G","H","I","J","K","L","M","N","O","P","Q","R","S","T","U","V","W","X","Y","Z">>
LOWERCASE == <<"a","b","c","d","e","f","g","h","i","j","k","l","m","n","o","p","q","r","s","t","u","v","w","x","y","z">>

\* c.lower() of one character
LowerChar(c) ==
    IF \E i \in 1..Len(UPPERCASE) : UPPERCASE[i] = c
    THEN LOWERCASE[CHOOSE i \in 1..Len(UPPERCASE) : UPPERCASE[i] = c]
    ELSE c

\* s.lower()
Lower(s) == [i \in 1..Len(s) |-> LowerChar(s[i])]

\* s.lstrip()
RECURSIVE LStrip(_)
LStrip(s) == IF s # << >> /\ Head(s) \in WHITESPACE THEN LStrip(Tail(s)) ELSE s

\* s.rstrip()
RECURSIVE RStrip(_)
RStrip(s) ==
    IF s # << >> /\ s[Len(s)] \in WHITESPACE THEN RStrip(SubSeq(s, 1, Len(s) - 1)) ELSE s

Strip_LeadingOnly(s) == LStrip(s)

\* s.strip()
Strip(s) == RStrip(LStrip(s))

DIGITS == <<"0","1","2","3","4","5","6","7","8","9">>

\* str(v) of a str, or of an int of one digit
Str(v) == IF v.ty = "text" THEN v.cs ELSE <<DIGITS[v.n + 1]>>

L_none == <<"n","o","n","e">>
L_minimal == <<"m","i","n","i","m","a","l">>
L_low == <<"l","o","w">>
L_medium == <<"m","e","d","i","u","m">>
L_high == <<"h","i","g","h">>
L_xhigh == <<"x","h","i","g","h">>

\* line 77
allowed == {L_none, L_minimal, L_low, L_medium, L_high, L_xhigh}

\* str(value or "").strip().lower(), lines 78 and 84
Cleaned(value) == Lower(Strip(Str(Or(value, PyText(<< >>)))))

\* lines 76-79
normalize_reasoning_effort(value, default) ==
    LET v == Cleaned(value) IN IF v \in allowed THEN v ELSE default

\* line 83
order ==
    (L_none :> 0) @@ (L_minimal :> 1) @@ (L_low :> 2) @@ (L_medium :> 3)
        @@ (L_high :> 4) @@ (L_xhigh :> 5)

\* lines 82-84: order.get(.., 3)
reasoning_rank(value) ==
    LET v == Cleaned(value) IN IF v \in DOMAIN order THEN order[v] ELSE 3

(***************************************************************************)
(* LLMClient.chat.                                                         *)
(***************************************************************************)
\* the usage objects a chat response may carry
PlainParts ==
    {EmptyDict,
     [total_tokens |-> PyInt(42)],
     [prompt_tokens |-> PyInt(30), completion_tokens |-> PyInt(12),
      total_tokens |-> PyInt(42)]}

CacheParts ==
    {EmptyDict,
     [cached_tokens |-> PyInt(7), cache_write_tokens |-> PyInt(0)],
     [prompt_tokens_details |->
         PyDict([cached_tokens |-> PyInt(17), cache_creation_tokens |-> PyInt(4)])]}

CostParts == {EmptyDict, [cost |-> PyInt(0)], [cost |-> PyInt(9)]}

ChatUsages == {p @@ c @@ k : p \in PlainParts, c \in CacheParts, k \in CostParts}

\* resp.model_dump() of the responses the chat endpoint may send
ChatResponses ==
    {[id |-> i, usage |-> u, choices |-> ch] :
        i \in {PyStr(""), PyStr("gen-1")},
        u \in {PyNone} \cup {PyDict(x) : x \in ChatUsages},
        ch \in {PyNone,
                PyList(<<[message |-> PyDict([content |-> PyStr("hi")])]>>)}}

\* what client.chat.completions.create can do: raise, or return a response
ChatOutcomes ==
    {[kind |-> "error"]} \cup {[kind |-> "ok", resp |-> r] : r \in ChatResponses}

\* lines 267-270: promote prompt_tokens_details.cached_tokens
PromoteCached(u) ==
    IF ~Truthy(Get(u, "cached_tokens"))
    THEN LET prompt_details == Or(Get(u, "prompt_tokens_details"), PyDict(EmptyDict))
         IN IF prompt_details.ty = "dict" /\ Truthy(Get(prompt_details.d, "cached_tokens"))
            THEN Put(u, "cached_tokens", Get(prompt_details.d, "cached_tokens"))
            ELSE u
    ELSE u

\* a plausible slip: the nested counters tried in another order
CacheWriteOf_CreationFirst(d) ==
    Or(Get(d, "cache_creation_tokens"),
       Or(Get(d, "cache_write_tokens"), Get(d, "cache_creation_input_tokens")))

\* lines 276-278: the first truthy of the three nested write counters
CacheWriteOf(d) ==
    Or(Get(d, "cache_write_tokens"),
       Or(Get(d, "cache_creation_tokens"), Get(d, "cache_creation_input_tokens")))

\* lines 273-280: promote the nested cache-write counter
PromoteCacheWrite(u) ==
    IF ~Truthy(Get(u, "cache_write_tokens"))
    THEN LET prompt_details == Or(Get(u, "prompt_tokens_details"), PyDict(EmptyDict))
         IN IF prompt_details.ty = "dict" /\ Truthy(CacheWriteOf(prompt_details.d))
            THEN Put(u, "cache_write_tokens", CacheWriteOf(prompt_details.d))
            ELSE u
    ELSE u

\* lines 266-280
NormalizeUsage(u) == PromoteCacheWrite(PromoteCached(u))

\* lines 263-264: msg = (choices[0] if choices else {}).get("message") or {}
MessageOf(resp) ==
    LET choices == Or(Get(resp, "choices"), PyList(<<EmptyDict>>))
    IN Or(Get(choices.l[1], "message"), PyDict(EmptyDict))

\* line 283: not usage.get("cost") and is_openrouter
NeedsLookup(u, url) == ~Truthy(Get(u, "cost")) /\ _is_openrouter(url)

\* ---- the request payload, lines 226-258 ----
MaxTools == 2

\* A list or dict that may be shared lives on the heap, a sequence of
\* objects; a reference holds the object's position in it.
PyRef(a) == [ty |-> "ref", a |-> a]

TruthyAt_NotNone(h, v) == v # PyNone

\* the truth value of v, a reference standing for the object it points to
TruthyAt(h, v) == IF v.ty = "ref" THEN Truthy(h[v.a]) ELSE Truthy(v)

\* [t for t in lst], line 250: a new list object holding the same elements
ListCopy(h, r) == [heap |-> Append(h, h[r.a]), ref |-> PyRef(Len(h) + 1)]

DictCopy_Alias(h, r) == [heap |-> h, ref |-> r]

\* {**d}, line 252: a new dict object holding the same items
DictCopy(h, r) == [heap |-> Append(h, h[r.a]), ref |-> PyRef(Len(h) + 1)]

\* d[k] = v on the dict r points to, line 253
SetItem(h, r, k, v) == [h EXCEPT ![r.a] = PyDict(Put(@.d, k, v))]

\* lst[-1] = v on the list r points to, line 254
SetLast(h, r, v) == [h EXCEPT ![r.a] = PyList([@.l EXCEPT ![Len(@.l)] = v])]

\* line 253
CacheMarker == PyDict([type |-> PyStr("ephemeral"), ttl |-> PyStr("1h")])

\* lines 235-239
ProviderPin ==
    PyDict([order |-> PyList(<<PyStr("Anthropic")>>),
            allow_fallbacks |-> PyBool(FALSE),
            require_parameters |-> PyBool(TRUE)])

\* lines 250-255: the copy of the tool list whose last entry is a marked copy
\* of the caller's last tool
ToolsWithCache(h, tls) ==
    LET c == ListCopy(h, tls)
    IN IF Truthy(c.heap[c.ref.a])
       THEN LET last == c.heap[c.ref.a].l[Len(c.heap[c.ref.a].l)]
                d == DictCopy(c.heap, last)
                h2 == SetItem(d.heap, d.ref, "cache_control", CacheMarker)
            IN [heap |-> SetLast(h2, c.ref, d.ref), ref |-> c.ref]
       ELSE c

\* lines 229-239
ExtraBody(m, url, eff) ==
    LET extra_body ==
            [reasoning |-> PyDict([effort |-> PyText(eff), exclude |-> PyBool(TRUE)])]
    IN IF _is_openrouter(url) /\ _is_anthropic_model(m)
       THEN Put(extra_body, "provider", ProviderPin)
       ELSE extra_body

\* the conversation and the completion budget, which the payload carries as
\* they came (line 219 for the default budget)
Messages == PyList(<<PyStr("user: hello")>>)
DEFAULT_MAX_TOKENS == 16384

\* lines 226-258: the payload, and the heap after building it
BuildKwargs(h, m, url, clean, tls, eff, choice) ==
    LET base == [model |-> PyText(clean), messages |-> Messages,
                 max_tokens |-> PyInt(DEFAULT_MAX_TOKENS),
                 extra_body |-> PyDict(ExtraBody(m, url, eff))]
    IN IF TruthyAt(h, tls)
       THEN IF _is_openrouter(url) /\ _is_anthropic_model(m)
            THEN LET twc == ToolsWithCache(h, tls)
                 IN [heap |-> twc.heap,
                     kwargs |-> Put(Put(base, "tools", twc.ref), "tool_choice", choice)]
            ELSE [heap |-> h,
                  kwargs |-> Put(Put(base, "tools", tls), "tool_choice", choice)]
       ELSE [heap |-> h, kwargs |-> base]

\* two tool definitions of the caller
ToolA == PyDict([type |-> PyStr("function"), name |-> PyStr("read_file")])
ToolB == PyDict([type |-> PyStr("function"), name |-> PyStr("run_shell")])
CallerTools == <<ToolA, ToolB>>

\* the tool lists a caller may hand over: up to MaxTools references to its
\* tool definitions, the same definition possibly more than once
ToolLists ==
    UNION {[1..n -> {PyRef(a) : a \in 1..Len(CallerTools)}] : n \in 0..MaxTools}

\* chat's tools argument with the heap it points into: None, or a list
ToolInputs ==
    {[heap |-> CallerTools, tools |-> PyNone]}
        \cup {[heap |-> Append(CallerTools, PyList(l)),
               tools |-> PyRef(Len(CallerTools) + 1)] : l \in ToolLists}

ToolChoices == {PyStr("auto"), PyStr("required")}

\* chat's reasoning_effort argument: nothing, the default, a level in
\* capitals after a blank, a word that is no level
ChatEfforts ==
    {PyNone, PyText(L_medium), PyText(<<" ", "H", "I", "G", "H">>),
     PyText(<<"m", "a", "x">>)}

\* the arguments of the chat calls of SpecChat: two tools, the defaults of
\* line 218 and line 220
DefaultArgs ==
    [heap |-> Append(CallerTools, PyList(<<PyRef(1), PyRef(Len(CallerTools))>>)),
     tools |-> PyRef(Len(CallerTools) + 1),
     reasoning_effort |-> PyText(L_medium),
     tool_choice |-> PyStr("auto")]

ChatModels ==
    {P_openai \o <<"g","p","t">>, P_gemini, P_anthropic \o <<"g","p","t">>,
     P_qwen \o <<"g","p","t">>, <<"g","p","t">>}

\* a caller invokes chat(messages, m, ...); line 224 routes the model
ChatCall(t, m) ==
    /\ pc[t] = "idle"
    /\ AllIdle
    /\ ncalls < MaxCalls
    /\ ncalls' = ncalls + 1
    /\ op' = [op EXCEPT ![t] = "chat"]
    /\ model' = [model EXCEPT ![t] = m]
    /\ base_url' = [base_url EXCEPT ![t] = _detect_provider(m, env)[1]]
    /\ api_key' = [api_key EXCEPT ![t] = _detect_provider(m, env)[2]]
    /\ clean_model' = [clean_model EXCEPT ![t] = _detect_provider(m, env)[3]]
    /\ before' = [before EXCEPT ![t] = clients]
    /\ new_client' = [new_client EXCEPT ![t] = NoHandle]
    /\ client' = [client EXCEPT ![t] = NoHandle]
    /\ raw_usage' = [raw_usage EXCEPT ![t] = EmptyDict]
    /\ usage' = [usage EXCEPT ![t] = EmptyDict]
    /\ msg' = [msg EXCEPT ![t] = PyNone]
    /\ gen_id' = [gen_id EXCEPT ![t] = PyNone]
    /\ cost' = [cost EXCEPT ![t] = PyNone]
    /\ trace' = [trace EXCEPT ![t] = << >>]
    /\ result' = [result EXCEPT ![t] = [kind |-> "none"]]
    /\ heap' = DefaultArgs.heap
    /\ heap0' = heap'
    /\ tools' = [tools EXCEPT ![t] = DefaultArgs.tools]
    /\ tool_choice' = [tool_choice EXCEPT ![t] = DefaultArgs.tool_choice]
    /\ reasoning_effort' = [reasoning_effort EXCEPT ![t] = DefaultArgs.reasoning_effort]
    /\ effort' = [effort EXCEPT ![t] = PyNone]
    /\ kwargs' = [kwargs EXCEPT ![t] = EmptyDict]
    /\ pc' = [pc EXCEPT ![t] = "gc_check"]
    /\ UNCHANGED <<accVars, rank, clients, constructed, history, env>>

\* lines 226-285: the payload is built, then comes the one request to the
\* chat endpoint; when it raises, chat raises; otherwise the response is dumped, its usage normalized in place and
\* the need for a cost lookup decided
ChatRequest(t) ==
    /\ pc[t] = "chat_request"
    /\ \E out \in ChatOutcomes :
         IF out.kind = "error"
         THEN /\ trace' = [trace EXCEPT ![t] =
                              Append(Append(@, [ev |-> "chat_request"]), [ev |-> "raise"])]
              /\ result' = [result EXCEPT ![t] = [kind |-> "raised", exc |-> "APIError"]]
              /\ pc' = [pc EXCEPT ![t] = "idle"]
              /\ UNCHANGED <<raw_usage, usage, msg, gen_id>>
         ELSE LET u0 == Or(Get(out.resp, "usage"), PyDict(EmptyDict)).d
                  gid == Or(Get(out.resp, "id"), PyStr(""))
              IN /\ trace' = [trace EXCEPT ![t] = Append(@, [ev |-> "chat_request"])]
                 /\ raw_usage' = [raw_usage EXCEPT ![t] = u0]
                 /\ usage' = [usage EXCEPT ![t] = NormalizeUsage(u0)]
                 /\ msg' = [msg EXCEPT ![t] = MessageOf(out.resp)]
                 /\ IF NeedsLookup(NormalizeUsage(u0), base_url[t])
                    THEN /\ gen_id' = [gen_id EXCEPT ![t] = gid]
                         /\ pc' = [pc EXCEPT ![t] =
                                     IF Truthy(gid) THEN "fc_entry" ELSE "chat_return"]
                    ELSE /\ gen_id' = gen_id
                         /\ pc' = [pc EXCEPT ![t] = "chat_return"]
                 /\ result' = result
    /\ LET e == normalize_reasoning_effort(reasoning_effort[t], L_medium)
           b == BuildKwargs(heap, model[t], base_url[t], clean_model[t], tools[t],
                            e, tool_choice[t])
       IN /\ effort' = [effort EXCEPT ![t] = PyText(e)]
          /\ kwargs' = [kwargs EXCEPT ![t] = b.kwargs]
          /\ heap' = b.heap
    /\ UNCHANGED <<accVars, heap0, tools, tool_choice, reasoning_effort, rank,
                   poolVars, op, base_url, api_key, before, new_client, client,
                   routeVars, cost>>

\* line 290: return msg, usage
ChatReturn(t) ==
    /\ pc[t] = "chat_return"
    /\ result' = [result EXCEPT ![t] =
                     [kind |-> "returned", msg |-> msg[t], usage |-> usage[t]]]
    /\ trace' = [trace EXCEPT ![t] = Append(@, [ev |-> "return"])]
    /\ pc' = [pc EXCEPT ![t] = "idle"]
    /\ UNCHANGED <<accVars, buildVars, poolVars, op, base_url, api_key, before, new_client, client,
                   routeVars, raw_usage, usage, msg, gen_id, cost>>

InitLocals ==
    /\ clients = EmptyDict
    /\ constructed = {}
    /\ history = << >>
    /\ ncalls = 0
    /\ pc = [t \in Threads |-> "idle"]
    /\ op = [t \in Threads |-> "none"]
    /\ base_url = [t \in Threads |-> << >>]
    /\ api_key = [t \in Threads |-> ""]
    /\ before = [t \in Threads |-> EmptyDict]
    /\ new_client = [t \in Threads |-> NoHandle]
    /\ client = [t \in Threads |-> NoHandle]
    /\ clean_model = [t \in Threads |-> << >>]
    /\ usage = [t \in Threads |-> EmptyDict]
    /\ msg = [t \in Threads |-> PyNone]
    /\ gen_id = [t \in Threads |-> PyNone]
    /\ cost = [t \in Threads |-> PyNone]
    /\ trace = [t \in Threads |-> << >>]
    /\ result = [t \in Threads |-> [kind |-> "none"]]
    /\ records = << >>
    /\ effort = [t \in Threads |-> PyNone]
    /\ rank = [t \in Threads |-> PyNone]
    /\ kwargs = [t \in Threads |-> EmptyDict]

\* no running total yet
InitTotal ==
    /\ total = EmptyDict
    /\ totals = <<total>>

\* no chat call yet: no tools handed over, nothing allocated
InitRequest ==
    /\ heap = << >>
    /\ heap0 = heap
    /\ tools = [t \in Threads |-> PyNone]
    /\ tool_choice = [t \in Threads |-> PyNone]
    /\ reasoning_effort = [t \in Threads |-> PyNone]

\* LLMClient(): an empty cache, in a process whose credentials are all set
Init ==
    /\ InitLocals
    /\ InitTotal
    /\ InitRequest
    /\ env = FullEnv
    /\ model = [t \in Threads |-> << >>]
    /\ raw_usage = [t \in Threads |-> EmptyDict]

(***************************************************************************)
(* Spec: threads call _get_client on one LLMClient concurrently.           *)
(***************************************************************************)
Next ==
    \E t \in Threads :
        \/ \E url \in Endpoints, key \in ApiKeys : GetClientCall(t, url, key)
        \/ GcCheck(t)
        \/ GcConstruct(t)
        \/ GcInsert(t)
        \/ GcReturn(t)

Spec == Init /\ [][Next]_vars

(***************************************************************************)
(* SpecSeq: the same calls, one at a time (a call starts only when no      *)
(* other call is in progress).                                             *)
(***************************************************************************)
SeqCall(t, url, key) == AllIdle /\ GetClientCall(t, url, key)

NextSeq ==
    \E t \in Threads :
        \/ \E url \in Endpoints, key \in ApiKeys : SeqCall(t, url, key)
        \/ GcCheck(t)
        \/ GcConstruct(t)
        \/ GcInsert(t)
        \/ GcReturn(t)

SpecSeq == Init /\ [][NextSeq]_vars

(***************************************************************************)
(* SpecChat: one caller makes chat calls, and direct calls of              *)
(* _fetch_generation_cost, one after the other on one LLMClient.           *)
(***************************************************************************)
MainThread == CHOOSE t \in Threads : \A u \in Threads : t <= u

NextChat ==
    \/ \E m \in ChatModels : ChatCall(MainThread, m)
    \/ \E url \in Endpoints : FetchCostCall(MainThread, PyStr("gen-1"), url, "sk-or")
    \/ GcCheck(MainThread)
    \/ GcConstruct(MainThread)
    \/ GcInsert(MainThread)
    \/ GcReturn(MainThread)
    \/ ChatRequest(MainThread)
    \/ FcEntry(MainThread)
    \/ FcLookup1(MainThread)
    \/ FcSleep(MainThread)
    \/ FcLookup2(MainThread)
    \/ FcReturn(MainThread)
    \/ ChatReturn(MainThread)

SpecChat == Init /\ [][NextChat]_vars

(***************************************************************************)
(* SpecRoute: _detect_provider applied to every identifier, under every    *)
(* choice of which credential variables are set.                           *)
(***************************************************************************)
InitRoute ==
    /\ InitLocals
    /\ InitTotal
    /\ InitRequest
    /\ env \in Envs
    /\ \E m \in Identifiers : model = [t \in Threads |-> m]
    /\ raw_usage = [t \in Threads |-> EmptyDict]

NextRoute == DetectProviderCall(MainThread)

SpecRoute == InitRoute /\ [][NextRoute]_vars

(***************************************************************************)
(* SpecNorm: the usage normalization of chat (lines 266-280) applied to    *)
(* every usage object over the cache counters, top-level and nested.       *)
(***************************************************************************)
\* all dicts with keys among ks and values among vs
Dicts(ks, vs) == UNION {[S -> vs] : S \in SUBSET ks}

NestedKeys ==
    {"cached_tokens", "cache_write_tokens", "cache_creation_tokens",
     "cache_creation_input_tokens"}

NestedValues == {PyNone} \cup {PyInt(n) : n \in 0..MaxCount}

NormUsages ==
    {top @@ det :
        top \in Dicts({"cached_tokens", "cache_write_tokens"},
                      {PyInt(0), PyInt(MaxCount + 1)}),
        det \in {EmptyDict, [prompt_tokens_details |-> PyNone],
                 [prompt_tokens_details |-> PyStr("n/a")]}
                  \cup {[prompt_tokens_details |-> PyDict(d)] :
                            d \in Dicts(NestedKeys, NestedValues)}}

\* lines 262-280 on the usage object thread t holds
NormalizeCall(t) ==
    /\ pc[t] = "idle"
    /\ op[t] = "none"
    /\ op' = [op EXCEPT ![t] = "normalize"]
    /\ usage' = [usage EXCEPT ![t] = NormalizeUsage(raw_usage[t])]
    /\ UNCHANGED <<accVars, buildVars, poolVars, pc, base_url, api_key, before, new_client, client,
                   routeVars, raw_usage, msg, gen_id, cost, trace, result>>

InitNorm ==
    /\ InitLocals
    /\ InitTotal
    /\ InitRequest
    /\ env = FullEnv
    /\ model = [t \in Threads |-> << >>]
    /\ \E u \in NormUsages : raw_usage = [t \in Threads |-> u]

NextNorm == NormalizeCall(MainThread)

SpecNorm == InitNorm /\ [][NextNorm]_vars

\* the handles built for endpoint url
HandlesFor(url) == {h \in constructed : h.base_url = url}

\* the completed calls for endpoint url, as indexes of history
CallsFor(url) == {i \in 1..Len(history) : history[i].base_url = url}

\* call i is the first completed call for its endpoint
FirstCall(i) == \A j \in 1..(i - 1) : history[j].base_url # history[i].base_url

\* C1: when callers invoke _get_client concurrently for one endpoint, exactly
\* one handle is constructed for that endpoint and every caller receives that
\* identical handle, under every interleaving of the check and the insert.
C1_OneHandleUnderConcurrency ==
    \A url \in Endpoints :
        /\ Cardinality(HandlesFor(url)) <= 1
        /\ \A i, j \in CallsFor(url) : history[i].handle = history[j].handle

\* C2: under sequential calls at most one handle is ever constructed per
\* endpoint; the first call for an endpoint constructs and caches a handle, and
\* every later call for it returns that same handle, whatever credential it
\* passes, and leaves the cache as it found it.
C2_SequentialCallsShareOneHandle ==
    /\ \A url \in Endpoints : Cardinality(HandlesFor(url)) <= 1
    /\ \A i \in 1..Len(history) :
          LET c == history[i] IN
          IF FirstCall(i)
          THEN /\ c.base_url \notin DOMAIN c.before
               /\ c.handle \in constructed
               /\ c.handle.base_url = c.base_url
               /\ c.handle.api_key = c.api_key
               /\ c.after = Put(c.before, c.base_url, c.handle)
          ELSE /\ \A j \in 1..(i - 1) :
                     history[j].base_url = c.base_url => c.handle = history[j].handle
               /\ c.after = c.before

\* a later call passed another credential than the call that built the handle
C2_Witness ==
    \E i, j \in 1..Len(history) :
        /\ i < j
        /\ history[i].base_url = history[j].base_url
        /\ history[i].api_key # history[j].api_key
        /\ history[j].handle = history[i].handle
        /\ history[j].handle.api_key = history[i].api_key

(***************************************************************************)
(* Reading a call's trace.                                                 *)
(***************************************************************************)
\* the positions of trace[t] holding an event of kind ev
Events(t, ev) == {i \in 1..Len(trace[t]) : trace[t][i].ev = ev}

NLookups(t) == Cardinality(Events(t, "lookup"))

\* the i-th lookup event of thread t's call
LookupNo(t, i) ==
    trace[t][CHOOSE k \in Events(t, "lookup") :
                 Cardinality({j \in Events(t, "lookup") : j <= k}) = i]

\* thread t's call of method m has ended
Done(t, m) == op[t] = m /\ pc[t] = "idle" /\ result[t].kind # "none"

\* the chat request of thread t's chat call raised
PrimaryFailed(t) ==
    Len(trace[t]) >= 2 /\ trace[t][1].ev = "chat_request" /\ trace[t][2].ev = "raise"

\* C3: whatever the lookups do, _fetch_generation_cost issues at most two of
\* them and then returns a cost or None, never raising; for an endpoint that
\* is not the aggregator it issues none and returns None.
C3_FetchCostBoundedAndTotal ==
    \A t \in Threads :
        /\ NLookups(t) <= 2
        /\ op[t] = "fetch_cost" => result[t].kind # "raised"
        /\ op[t] = "chat" /\ result[t].kind = "raised" => NLookups(t) = 0
        /\ Done(t, "fetch_cost") =>
              /\ result[t].value = PyNone \/ result[t].value.ty = "int"
              /\ ~_is_openrouter(base_url[t]) =>
                    NLookups(t) = 0 /\ result[t].value = PyNone

\* both lookups failed, the second by raising, and None came back
C3_Witness ==
    \E t \in Threads :
        /\ Done(t, "fetch_cost")
        /\ NLookups(t) = 2
        /\ LookupNo(t, 1).class = "status"
        /\ LookupNo(t, 2).got.ty = "raised"
        /\ result[t] = [kind |-> "returned", value |-> PyNone]

\* C4: on the aggregator a second lookup is made exactly when the first one
\* yields no usable cost, a first lookup that times out, answers with a
\* non-success status or a malformed body included; never a third.
C4_RetryExactlyWhenFirstYieldsNoCost ==
    \A t \in Threads :
        (pc[t] = "idle" /\ NLookups(t) >= 1) =>
            /\ NLookups(t) <= 2
            /\ NLookups(t) = 2 <=> LookupNo(t, 1).got.ty # "int"

\* C5: a cost the provider's usage already carries is what chat returns; the
\* lookup writes usage.cost only when the response reported no cost and the
\* lookup returned one.
C5_ReconcileOnlyFillsEmptyCost ==
    \A t \in Threads :
        Done(t, "chat") /\ result[t].kind = "returned" =>
            /\ Get(raw_usage[t], "cost") # PyNone =>
                  Get(result[t].usage, "cost") = Get(raw_usage[t], "cost")
            /\ Get(result[t].usage, "cost") # Get(raw_usage[t], "cost") =>
                  Get(raw_usage[t], "cost") = PyNone /\ cost[t] # PyNone

\* C6: a chat call fails exactly when its chat request fails; once that
\* request succeeded chat returns (msg, usage) whatever the cost lookups do,
\* with cost absent when neither the response nor a lookup gave one.
C6_ChatOutcomeDecidedByPrimaryRequest ==
    \A t \in Threads :
        Done(t, "chat") =>
            IF PrimaryFailed(t)
            THEN result[t].kind = "raised"
            ELSE /\ result[t].kind = "returned"
                 /\ result[t].msg = msg[t]
                 /\ (Get(raw_usage[t], "cost") = PyNone /\ cost[t] = PyNone) =>
                        "cost" \notin DOMAIN result[t].usage

\* chat returned although both cost lookups failed, the second by timing out
C6_Witness ==
    \E t \in Threads :
        /\ Done(t, "chat")
        /\ result[t].kind = "returned"
        /\ NLookups(t) = 2
        /\ LookupNo(t, 1).class = "status"
        /\ LookupNo(t, 2).class = "timeout"
        /\ "cost" \notin DOMAIN result[t].usage

\* C7: a chat call makes exactly one request to the chat endpoint; when it
\* fails the call raises and no lookup follows; otherwise zero, one or two
\* lookups follow, all before chat returns: nothing happens after the return.
C7_OneChatRequestAndLookupsBeforeReturn ==
    \A t \in Threads :
        /\ \A i \in Events(t, "return") \cup Events(t, "raise") : i = Len(trace[t])
        /\ op[t] = "chat" =>
              /\ Events(t, "chat_request") \subseteq {1}
              /\ NLookups(t) <= 2
              /\ NLookups(t) >= 1 => Events(t, "chat_request") = {1}
        /\ Done(t, "chat") =>
              /\ Events(t, "chat_request") = {1}
              /\ IF PrimaryFailed(t)
                 THEN trace[t] = <<[ev |-> "chat_request"], [ev |-> "raise"]>>
                 ELSE Events(t, "return") = {Len(trace[t])}

\* a chat call that made both lookups, slept between them, and returned
C7_Witness ==
    \E t \in Threads :
        /\ Done(t, "chat")
        /\ Len(trace[t]) = 5
        /\ trace[t][1].ev = "chat_request"
        /\ trace[t][2].ev = "lookup"
        /\ trace[t][3].ev = "sleep"
        /\ trace[t][4].ev = "lookup"
        /\ trace[t][5].ev = "return"

Counters ==
    {"prompt_tokens", "completion_tokens", "total_tokens", "cached_tokens",
     "cache_write_tokens"}

\* C8: the usage chat returns holds all five counters, one the provider left
\* out being there with value 0, and holds cost only if the response or a
\* lookup reported it.
C8_AllCountersPresentAfterNormalization ==
    \A t \in Threads :
        Done(t, "chat") /\ result[t].kind = "returned" =>
            /\ \A k \in Counters :
                  /\ k \in DOMAIN result[t].usage
                  /\ result[t].usage[k].ty = "int"
            /\ "cost" \in DOMAIN result[t].usage =>
                  "cost" \in DOMAIN raw_usage[t] \/ cost[t] # PyNone

(***************************************************************************)
(* Reading a normalized usage object.                                      *)
(***************************************************************************)
\* the number a counter reads as: 0 when it is missing, None or 0
Val(d, k) == IF Get(d, k).ty = "int" THEN Get(d, k).n ELSE 0

\* the nested prompt_tokens_details of u, empty when there is none
Details(u) ==
    IF Get(u, "prompt_tokens_details").ty = "dict"
    THEN Get(u, "prompt_tokens_details").d ELSE EmptyDict

\* the nested counters a cache-write count is looked for in, in priority order
WriteKeys == <<"cache_write_tokens", "cache_creation_tokens", "cache_creation_input_tokens">>

\* the keys of WriteKeys, as positions, whose value in d satisfies Q
WriteKeysWhere(d, Q(_)) == {i \in 1..Len(WriteKeys) : Q(Get(d, WriteKeys[i]))}

IsPresent(v) == v # PyNone

Min(S) == CHOOSE x \in S : \A y \in S : x <= y

\* k is in u and out alike, with the same value
SameAt(u, out, k) == (k \in DOMAIN out <=> k \in DOMAIN u) /\ Get(out, k) = Get(u, k)

\* C9: a non-zero top-level cached_tokens or cache_write_tokens is returned
\* unchanged; an absent or zero top-level cached_tokens gets the nested
\* cached_tokens; an absent or zero top-level cache_write_tokens gets the
\* first present value among the nested cache_write_tokens,
\* cache_creation_tokens, cache_creation_input_tokens.
C9_PromotesFirstPresentNestedCounter ==
    \A t \in Threads :
        op[t] = "normalize" =>
            LET u == raw_usage[t]
                out == usage[t]
                det == Details(raw_usage[t])
                present == WriteKeysWhere(det, IsPresent)
            IN /\ \A k \in {"cached_tokens", "cache_write_tokens"} :
                     Truthy(Get(u, k)) => Get(out, k) = Get(u, k)
               /\ (~Truthy(Get(u, "cached_tokens")) /\ IsPresent(Get(det, "cached_tokens")))
                     => Val(out, "cached_tokens") = Val(det, "cached_tokens")
               /\ (~Truthy(Get(u, "cache_write_tokens")) /\ present # {})
                     => Val(out, "cache_write_tokens") = Val(det, WriteKeys[Min(present)])

\* C9 as amended: the nested counters promoted are the non-zero ones: an
\* absent or zero top-level cached_tokens gets a non-zero nested
\* cached_tokens; an absent or zero top-level cache_write_tokens gets the
\* first non-zero value among the three nested counters, in their order; with
\* no non-zero nested counter the top-level counter stays as the provider
\* sent it; a non-zero top-level counter, and every other field, is unchanged.
C9_PromotesFirstNonZeroNestedCounter ==
    \A t \in Threads :
        op[t] = "normalize" =>
            LET u == raw_usage[t]
                out == usage[t]
                det == Details(raw_usage[t])
                nonzero == WriteKeysWhere(det, Truthy)
            IN /\ DOMAIN out \subseteq DOMAIN u \cup {"cached_tokens", "cache_write_tokens"}
               /\ \A k \in DOMAIN u \ {"cached_tokens", "cache_write_tokens"} :
                     SameAt(u, out, k)
               /\ \A k \in {"cached_tokens", "cache_write_tokens"} :
                     Truthy(Get(u, k)) => SameAt(u, out, k)
               /\ ~Truthy(Get(u, "cached_tokens")) =>
                     IF Truthy(Get(det, "cached_tokens"))
                     THEN Get(out, "cached_tokens") = Get(det, "cached_tokens")
                     ELSE SameAt(u, out, "cached_tokens")
               /\ ~Truthy(Get(u, "cache_write_tokens")) =>
                     IF nonzero # {}
                     THEN Get(out, "cache_write_tokens") = Get(det, WriteKeys[Min(nonzero)])
                     ELSE SameAt(u, out, "cache_write_tokens")

\* a zero nested cache_write_tokens was passed over for cache_creation_tokens
C9_Witness ==
    \E t \in Threads :
        /\ op[t] = "normalize"
        /\ "cache_write_tokens" \notin DOMAIN raw_usage[t]
        /\ Get(Details(raw_usage[t]), "cache_write_tokens") = PyInt(0)
        /\ Get(Details(raw_usage[t]), "cache_creation_tokens") = PyInt(1)
        /\ Get(Details(raw_usage[t]), "cache_creation_input_tokens") = PyInt(2)
        /\ Get(usage[t], "cache_write_tokens") = PyInt(1)

\* C10: _detect_provider answers for every identifier: the OpenAI endpoint and
\* credential for an "openai/" prefix, Google's for "google/" or "gemini", the
\* aggregator's for "anthropic/", "x-ai/", "meta-llama/" or "qwen/", and the
\* OpenAI ones for anything else, the empty string included.
C10_RouteByPrefix ==
    \A t \in Threads :
        op[t] = "detect_provider" =>
            LET m == model[t]
                r == <<base_url[t], api_key[t]>>
                openai == <<OPENAI_URL, EnvGet(env, "OPENAI_API_KEY")>>
                google == <<GOOGLE_URL, EnvGet(env, "GOOGLE_API_KEY")>>
                aggregator == <<OPENROUTER_URL, EnvGet(env, "OPENROUTER_API_KEY")>>
                isOpenai == StartsWith(m, P_openai)
                isGoogle == StartsWith(m, P_google) \/ StartsWith(m, P_gemini)
                isAggregator ==
                    \E p \in {P_anthropic, P_xai, P_meta_llama, P_qwen} : StartsWith(m, p)
            IN /\ r \in {openai, google, aggregator}
               /\ isOpenai => r = openai
               /\ isGoogle => r = google
               /\ isAggregator => r = aggregator
               /\ ~(isOpenai \/ isGoogle \/ isAggregator) => r = openai
               /\ \A t2 \in Threads :
                     (op[t2] = "detect_provider" /\ model[t2] = m)
                        => <<base_url[t2], api_key[t2]>> = r

\* a "qwen/" identifier was routed to the aggregator with its credential
C10_Witness ==
    \E t \in Threads :
        /\ op[t] = "detect_provider"
        /\ StartsWith(model[t], P_qwen)
        /\ Len(model[t]) > Len(P_qwen)
        /\ base_url[t] = OPENROUTER_URL
        /\ api_key[t] = "sk-or"


(***************************************************************************)
(* add_usage: a caller folds usage records into one running total.         *)
(***************************************************************************)
MaxRecords == 3

USAGE_KEYS ==
    <<"prompt_tokens", "completion_tokens", "total_tokens", "cached_tokens",
      "cache_write_tokens">>

\* int(v or 0) for the values a usage dict holds under a counter
IntOrZero(v) == Or(v, PyInt(0)).n

AddCounter_Overwrite(tot, u, k) == Put(tot, k, PyInt(IntOrZero(Get(u, k))))

\* line 90: total[k] = int(total.get(k) or 0) + int(usage.get(k) or 0)
AddCounter(tot, u, k) ==
    Put(tot, k, PyInt(IntOrZero(Get(tot, k)) + IntOrZero(Get(u, k))))

\* lines 89-90: the loop over the five counters
RECURSIVE AddCounters(_, _, _)
AddCounters(tot, u, ks) ==
    IF ks = << >> THEN tot
    ELSE AddCounters(AddCounter(tot, u, Head(ks)), u, Tail(ks))

AddCost_ClearsWhenAbsent(tot, u) ==
    IF Truthy(Get(u, "cost"))
    THEN Put(tot, "cost", PyInt(IntOrZero(Get(tot, "cost")) + u["cost"].n))
    ELSE Put(tot, "cost", PyInt(0))

\* lines 91-92: cost is added only when the record carries a truthy one;
\* float(..) of the exact amounts the model keeps is the amount itself
AddCost(tot, u) ==
    IF Truthy(Get(u, "cost"))
    THEN Put(tot, "cost", PyInt(IntOrZero(Get(tot, "cost")) + u["cost"].n))
    ELSE tot

\* add_usage(total, usage): the total dict after the in-place update
add_usage(tot, u) == AddCost(AddCounters(tot, u, USAGE_KEYS), u)

\* the token counters a record may carry: none, the three plain ones, or all
\* five with one of them null
RecordCounters ==
    {EmptyDict,
     [prompt_tokens |-> PyInt(1), completion_tokens |-> PyInt(2),
      total_tokens |-> PyInt(3)],
     [prompt_tokens |-> PyInt(2), completion_tokens |-> PyNone,
      total_tokens |-> PyInt(2), cached_tokens |-> PyInt(1),
      cache_write_tokens |-> PyInt(1)]}

\* the cost a record may carry besides no cost key at all: null, zero, an amount
NullCost == [cost |-> PyNone]
ZeroCost == [cost |-> PyInt(0)]
SomeCost == [cost |-> PyInt(5)]

\* every counter part without a cost and with one, and two records whose cost
\* is null or zero
UsageRecords ==
    {c @@ k : c \in RecordCounters, k \in {EmptyDict, SomeCost}}
        \cup {NullCost, [prompt_tokens |-> PyInt(1)] @@ ZeroCost}

\* the running total a caller starts from: a fresh dict, or one that holds
\* only part of the fields
StartTotals == {EmptyDict, [prompt_tokens |-> PyInt(4), cost |-> PyInt(7)]}

\* the caller runs add_usage(total, u)
AddUsageCall(u) ==
    /\ Len(records) < MaxRecords
    /\ total' = add_usage(total, u)
    /\ records' = Append(records, u)
    /\ totals' = Append(totals, total')
    /\ UNCHANGED <<poolVars, threadVars, routeVars, chatVars, buildVars>>

InitAcc ==
    /\ InitLocals
    /\ InitRequest
    /\ env = FullEnv
    /\ model = [t \in Threads |-> << >>]
    /\ raw_usage = [t \in Threads |-> EmptyDict]
    /\ total \in StartTotals
    /\ totals = <<total>>

NextAcc == \E u \in UsageRecords : AddUsageCall(u)

SpecAcc == InitAcc /\ [][NextAcc]_vars

(***************************************************************************)
(* SpecEffort: normalize_reasoning_effort and reasoning_rank applied to    *)
(* one value.                                                              *)
(***************************************************************************)
\* the words a caller may pass: the six levels, the empty string, a word
\* that is no level, a level split by a blank
EffortWords ==
    allowed \cup {<< >>, <<"m","a","x">>, <<"l","o"," ","w">>}

UpperChar(c) ==
    IF \E i \in 1..Len(LOWERCASE) : LOWERCASE[i] = c
    THEN UPPERCASE[CHOOSE i \in 1..Len(LOWERCASE) : LOWERCASE[i] = c]
    ELSE c

\* the word as it is, in capitals, and with a capital first letter
Casings(w) ==
    {w, [i \in 1..Len(w) |-> UpperChar(w[i])],
     [i \in 1..Len(w) |-> IF i = 1 THEN UpperChar(w[i]) ELSE w[i]]}

\* up to MaxPad whitespace characters
Pads == UNION {[1..n -> WHITESPACE] : n \in 0..MaxPad}

\* what a caller may pass as reasoning_effort: None, small ints, and words in
\* any casing with blanks around them
EffortInputs ==
    {PyNone, PyInt(0), PyInt(3)}
        \cup {PyText(a \o c \o b) : a \in Pads, b \in Pads,
                                    c \in UNION {Casings(w) : w \in EffortWords}}

\* the caller runs normalize_reasoning_effort(x) and reasoning_rank(x) on
\* the same value x
EffortCall(t) ==
    /\ pc[t] = "idle"
    /\ op[t] = "none"
    /\ op' = [op EXCEPT ![t] = "effort"]
    /\ effort' = [effort EXCEPT ![t] =
                     PyText(normalize_reasoning_effort(reasoning_effort[t], L_medium))]
    /\ rank' = [rank EXCEPT ![t] = PyInt(reasoning_rank(reasoning_effort[t]))]
    /\ UNCHANGED <<poolVars, pc, base_url, api_key, before, new_client, client,
                   routeVars, chatVars, accVars, heap, heap0, tools, tool_choice,
                   reasoning_effort, kwargs>>

InitEffort ==
    /\ InitLocals
    /\ InitTotal
    /\ env = FullEnv
    /\ model = [t \in Threads |-> << >>]
    /\ raw_usage = [t \in Threads |-> EmptyDict]
    /\ heap = << >>
    /\ heap0 = heap
    /\ tools = [t \in Threads |-> PyNone]
    /\ tool_choice = [t \in Threads |-> PyNone]
    /\ \E x \in EffortInputs : reasoning_effort = [t \in Threads |-> x]

NextEffort == EffortCall(MainThread)

SpecEffort == InitEffort /\ [][NextEffort]_vars

(***************************************************************************)
(* SpecBuild: the payload construction of chat (lines 224-258) applied to  *)
(* every model route, tool list, effort and tool choice.                   *)
(***************************************************************************)
BuildRequestCall(t) ==
    /\ pc[t] = "idle"
    /\ op[t] = "none"
    /\ op' = [op EXCEPT ![t] = "build"]
    /\ base_url' = [base_url EXCEPT ![t] = _detect_provider(model[t], env)[1]]
    /\ api_key' = [api_key EXCEPT ![t] = _detect_provider(model[t], env)[2]]
    /\ clean_model' = [clean_model EXCEPT ![t] = _detect_provider(model[t], env)[3]]
    /\ LET e == normalize_reasoning_effort(reasoning_effort[t], L_medium)
           b == BuildKwargs(heap, model[t], base_url'[t], clean_model'[t], tools[t],
                            e, tool_choice[t])
       IN /\ effort' = [effort EXCEPT ![t] = PyText(e)]
          /\ kwargs' = [kwargs EXCEPT ![t] = b.kwargs]
          /\ heap' = b.heap
    /\ UNCHANGED <<poolVars, pc, before, new_client, client, env, model, chatVars,
                   accVars, heap0, tools, tool_choice, reasoning_effort, rank>>

InitBuild ==
    /\ InitLocals
    /\ InitTotal
    /\ env = FullEnv
    /\ \E m \in ChatModels : model = [t \in Threads |-> m]
    /\ raw_usage = [t \in Threads |-> EmptyDict]
    /\ \E ti \in ToolInputs :
          /\ heap = ti.heap
          /\ tools = [t \in Threads |-> ti.tools]
    /\ heap0 = heap
    /\ \E c \in ToolChoices : tool_choice = [t \in Threads |-> c]
    /\ \E x \in ChatEfforts : reasoning_effort = [t \in Threads |-> x]

NextBuild == BuildRequestCall(MainThread)

SpecBuild == InitBuild /\ [][NextBuild]_vars

\* ---------------------------------------------------------------------------
\* The canonical model name

\* the identifier without its first Len(p) characters
DropPrefix(m, p) == SubSeq(m, Len(p) + 1, Len(m))

\* C11: the canonical name is the identifier minus only its leading routing
\* prefix: minus the leading "openai/" under rule 1; under rule 2 minus a
\* leading "google/" when there is one, a "gemini..." identifier and any later
\* "google/" inside the name staying as they are; the identifier itself on
\* every other route
C11_OnlyLeadingPrefixRemoved ==
    \A t \in Threads :
        op[t] = "detect_provider" =>
            clean_model[t] =
                IF StartsWith(model[t], P_openai)
                THEN DropPrefix(model[t], P_openai)
                ELSE IF StartsWith(model[t], P_google)
                THEN DropPrefix(model[t], P_google)
                ELSE model[t]

\* ---------------------------------------------------------------------------
\* Accumulation of usage records

\* the sum of field k over the records rs, a missing or null field counting 0
RECURSIVE SumField(_, _)
SumField(rs, k) ==
    IF rs = << >> THEN 0 ELSE Val(Head(rs), k) + SumField(Tail(rs), k)

\* accumulate: the total after the records rs are added one after the other
RECURSIVE Accumulate(_, _)
Accumulate(tot, rs) ==
    IF rs = << >> THEN tot ELSE Accumulate(add_usage(tot, Head(rs)), Tail(rs))

Orders(n) ==
    {p \in [1..n -> 1..n] : \A i, j \in 1..n : p[i] = p[j] => i = j}

Reorder(rs, p) == [i \in 1..Len(rs) |-> rs[p[i]]]

\* C12: each token counter of the running total is the starting value plus
\* the sum of that field over the accumulated records (missing counts 0), and
\* the counters are the same whatever the grouping of the records into calls
\* and whatever their order
C12_CountersAddWhateverTheOrder ==
    LET n == Len(records)
        start == totals[1]
        SameCounters(tot) == \A k \in Counters : Val(tot, k) = Val(total, k)
    IN /\ \A k \in Counters :
            /\ Val(total, k) = Val(start, k) + SumField(records, k)
            /\ n > 0 => Get(total, k).ty = "int"
       /\ \A i \in 0..n :
            SameCounters(Accumulate(Accumulate(start, SubSeq(records, 1, i)),
                                    SubSeq(records, i + 1, n)))
       /\ \A p \in Orders(n) : SameCounters(Accumulate(start, Reorder(records, p)))

\* three different records, one without any counter, on a total that
\* already counted something
C12_Witness ==
    /\ Len(records) = 3
    /\ records[1] # records[2] /\ records[2] # records[3] /\ records[1] # records[3]
    /\ \E i \in 1..3 : "prompt_tokens" \notin DOMAIN records[i]
    /\ \E i \in 1..3 : Val(records[i], "cached_tokens") > 0
    /\ Val(totals[1], "prompt_tokens") > 0

\* a record whose cost is there (not missing, not null)
CostPresent(r) == Get(r, "cost") # PyNone

\* the records of rs whose cost is present
PresentCosts(rs) == SelectSeq(rs, CostPresent)

\* C13: total.cost is the starting cost plus the costs of exactly the
\* records whose cost is present; a record without cost leaves total.cost as
\* it was (not cleared, not zeroed), a record with a cost adds it
C13_CostSumsPresentCostsOnly ==
    /\ Val(total, "cost") = Val(totals[1], "cost") + SumField(PresentCosts(records), "cost")
    /\ \A i \in 1..Len(records) :
          IF CostPresent(records[i])
          THEN Val(totals[i + 1], "cost") = Val(totals[i], "cost") + Val(records[i], "cost")
          ELSE /\ Get(totals[i + 1], "cost") = Get(totals[i], "cost")
               /\ "cost" \in DOMAIN totals[i + 1] <=> "cost" \in DOMAIN totals[i]

\* a cost, then a record without cost, then a cost again
C13_Witness ==
    /\ Len(records) = 3
    /\ Val(records[1], "cost") > 0
    /\ ~CostPresent(records[2])
    /\ Val(records[3], "cost") > 0
    /\ Val(total, "cost") = Val(totals[1], "cost") + Val(records[1], "cost") + Val(records[3], "cost")

\* ---------------------------------------------------------------------------
\* Effort levels

EFFORT_LEVELS == <<L_none, L_minimal, L_low, L_medium, L_high, L_xhigh>>

\* the ordinal of level l in none < minimal < low < medium < high < xhigh
Ordinal(l) == (CHOOSE i \in 1..Len(EFFORT_LEVELS) : EFFORT_LEVELS[i] = l) - 1

\* the characters cs spell level l, whatever their case
SpellsLevel(cs, l) ==
    /\ Len(cs) = Len(l)
    /\ \A i \in 1..Len(l) : cs[i] = l[i] \/ cs[i] = UpperChar(l[i])

\* the input x matches level l case-insensitively
MatchesLevel(x, l) == x.ty = "text" /\ SpellsLevel(x.cs, l)

\* the input x is level l in any case with whitespace before and after it
MatchesLevelPadded(x, l) ==
    /\ x.ty = "text"
    /\ \E i \in 0..Len(x.cs), j \in 1..(Len(x.cs) + 1) :
          /\ i < j
          /\ \A k \in 1..i : x.cs[k] \in WHITESPACE
          /\ \A k \in j..Len(x.cs) : x.cs[k] \in WHITESPACE
          /\ SpellsLevel(SubSeq(x.cs, i + 1, j - 1), l)

\* what the claim says of one call, given what counts as matching a level
EffortAsClaimed(t, Matches(_, _)) ==
    LET x == reasoning_effort[t]
        level == IF \E l \in allowed : Matches(x, l)
                 THEN CHOOSE l \in allowed : Matches(x, l)
                 ELSE L_medium
    IN /\ effort[t] = PyText(level)
       /\ rank[t] = PyInt(Ordinal(level))
       /\ rank[t] = PyInt(reasoning_rank(effort[t]))
       /\ (~\E l \in allowed : Matches(x, l)) => rank[t] = PyInt(3)

\* C16: normalize_reasoning_effort gives the level the input matches
\* case-insensitively and "medium" when it matches none; reasoning_rank gives
\* the ordinal of that level, so that ranking the input and ranking its
\* normalization agree and an unrecognized input ranks 3
C16_LevelWhenMatchingIgnoringCase ==
    \A t \in Threads : op[t] = "effort" => EffortAsClaimed(t, MatchesLevel)

\* C16, amended: the level is the one the input spells in any case once the
\* whitespace around it is set aside, "medium" when there is none; the rank
\* is the ordinal of that level
C16_LevelWhenMatchingIgnoringCaseAndPadding ==
    \A t \in Threads : op[t] = "effort" => EffortAsClaimed(t, MatchesLevelPadded)

\* a level other than the default, out of an input in capitals with
\* whitespace on both sides
C16_Witness ==
    \E t \in Threads :
        /\ op[t] = "effort"
        /\ effort[t] = PyText(L_xhigh)
        /\ rank[t] = PyInt(5)
        /\ reasoning_effort[t].ty = "text"
        /\ Len(reasoning_effort[t].cs) = Len(L_xhigh) + 2
        /\ reasoning_effort[t].cs[2] = "X"

\* ---------------------------------------------------------------------------
\* The request payload

\* the payload of t has been built
Built(t) == op[t] = "build"

\* t's request goes to the aggregator for an Anthropic-family model
PinnedRoute(t) == _is_openrouter(base_url[t]) /\ StartsWith(model[t], P_anthropic)

\* the caller handed t a tool list that is not empty
HasTools(t) == tools[t] # PyNone /\ Len(heap0[tools[t].a].l) > 0

\* the tool definition behind entry i of the list r points to, in heap h
ToolAt(h, r, i) == h[h[r.a].l[i].a].d

\* every object the caller handed over is what it was
CallerObjectsIntact ==
    \A a \in 1..Len(heap0) : a <= Len(heap) /\ heap[a] = heap0[a]

\* C14: with a non-empty tool list on the aggregator route for an
\* Anthropic-family model, the payload's tools are as many and in the same
\* order as the caller's, the last one is the caller's last tool plus the
\* cache marker, the others are the caller's tools unchanged, and the
\* caller's list and tool definitions are as they were, without marker; on
\* every other route the payload's tools are the caller's list itself
C14_MarkerOnCopyOfLastToolOnly ==
    \A t \in Threads :
        Built(t) /\ HasTools(t) =>
            LET mine == tools[t]
                sent == kwargs[t]["tools"]
                n == Len(heap0[mine.a].l)
            IN /\ CallerObjectsIntact
               /\ \A a \in 1..Len(heap0) :
                     heap[a].ty = "dict" => "cache_control" \notin DOMAIN heap[a].d
               /\ IF PinnedRoute(t)
                  THEN /\ sent.ty = "ref"
                       /\ Len(heap[sent.a].l) = n
                       /\ \A i \in 1..(n - 1) :
                             /\ heap[sent.a].l[i] = heap0[mine.a].l[i]
                             /\ ToolAt(heap, sent, i) = ToolAt(heap0, mine, i)
                       /\ ToolAt(heap, sent, n) =
                              Put(ToolAt(heap0, mine, n), "cache_control", CacheMarker)
                  ELSE /\ sent = mine
                       /\ heap = heap0

\* the pinned route, with the same tool definition first and last in the list
C14_Witness ==
    \E t \in Threads :
        /\ Built(t)
        /\ HasTools(t)
        /\ PinnedRoute(t)
        /\ Len(heap0[tools[t].a].l) = 2
        /\ heap0[tools[t].a].l[1] = heap0[tools[t].a].l[2]
        /\ "cache_control" \in DOMAIN ToolAt(heap, kwargs[t]["tools"], 2)
        /\ "cache_control" \notin DOMAIN ToolAt(heap, kwargs[t]["tools"], 1)

\* C15: the payload holds tool_choice exactly when the caller's tools are
\* a non-empty list, and then it holds tools too; with no or empty tools it
\* holds neither; and it always carries the reasoning extension with the
\* normalized effort and the exclude flag set
C15_ToolChoiceIffToolsAndReasoningAlways ==
    \A t \in Threads :
        Built(t) =>
            /\ "tool_choice" \in DOMAIN kwargs[t] <=> HasTools(t)
            /\ "tools" \in DOMAIN kwargs[t] <=> HasTools(t)
            /\ HasTools(t) => kwargs[t]["tool_choice"] = tool_choice[t]
            /\ "extra_body" \in DOMAIN kwargs[t]
            /\ "reasoning" \in DOMAIN kwargs[t]["extra_body"].d
            /\ LET r == kwargs[t]["extra_body"].d["reasoning"].d
               IN /\ r["exclude"] = PyBool(TRUE)
                  /\ r["effort"].cs \in allowed
                  /\ r["effort"] =
                        PyText(normalize_reasoning_effort(reasoning_effort[t], L_medium))

\* an empty tool list on the pinned route, and an effort that needed
\* normalizing
C15_Witness ==
    \E t \in Threads :
        /\ Built(t)
        /\ PinnedRoute(t)
        /\ tools[t] # PyNone
        /\ ~HasTools(t)
        /\ "tool_choice" \notin DOMAIN kwargs[t]
        /\ reasoning_effort[t] # PyNone
        /\ kwargs[t]["extra_body"].d["reasoning"].d["effort"] # reasoning_effort[t]
        /\ kwargs[t]["extra_body"].d["reasoning"].d["effort"] = PyText(L_high)

====
